---- MODULE Spec2Model ----
(***************************************************************************)
(* A model of the syntax-tree rewrite pipeline of tsconfig-type.           *)
(*                                                                         *)
(* The repository holds two variants of the generation script:             *)
(*   "action"  src/action.ts                                               *)
(*   "index"   src/unnamed/part_000                                        *)
(* Both parse the output of json-schema-to-typescript into a TypeScript    *)
(* syntax tree and fold a list of transformers over it (transformer,       *)
(* getTransformerFactories).  A syntax-tree node is a record with a field  *)
(* kind and the fields the TypeScript node of that kind has.  Trees are    *)
(* values: a transformer returns a new tree.                               *)
(*                                                                         *)
(* Decorators, JSDoc comments and positions are left out: no transformer   *)
(* reads them.  Modifiers, identifiers, question tokens and parameters are *)
(* visited by ts.visitEachChild like every child, and every visitor of     *)
(* this repository returns them as they are, so the model keeps them as    *)
(* plain fields.                                                           *)
(***************************************************************************)
EXTENDS Integers, Sequences, FiniteSets, TLC

VARIABLES
    variant,            \* which script runs: "action" or "index"
    initialSourceFile,  \* the tree ts.createSourceFile returned
    result,             \* the accumulator of transformer's reduce
    applied,            \* the transformer factories applied so far, in order
    pc,                 \* "reduce" | "done" | "thrown" | "pass" | "main"
    devFile,            \* the file dev exists next to the script
    checksumJson,       \* the checksum in checksum.json on disk
    theTypeDts,         \* the content of the_type.d.ts on disk
    previousChecksum,   \* the checksum imported when the script was loaded
    runs,               \* the calls of main of this execution
    svRunning,          \* the calls whose standard-version is under way unawaited
    log,                \* what this execution has done, in order
    executing,          \* the script's process is alive
    executions,         \* the executions started so far
    released,           \* what the last completed release published
    releasedBefore      \* released, as it was when this execution started

transformVars == <<variant, initialSourceFile, result, applied, pc>>
mainVars == <<devFile, checksumJson, theTypeDts, previousChecksum, runs, svRunning,
              log, executing, executions, released, releasedBefore>>
vars == <<variant, initialSourceFile, result, applied, pc,
          devFile, checksumJson, theTypeDts, previousChecksum, runs, svRunning,
          log, executing, executions, released, releasedBefore>>

---------------------------------------------------------------------------
(* Syntax kinds and node constructors (the parser's and ts.factory's).     *)

ExportKeyword == "ExportKeyword"
DeclareKeyword == "DeclareKeyword"

StringKeyword == [kind |-> "StringKeyword"]
NumberKeyword == [kind |-> "NumberKeyword"]
UnknownKeyword == [kind |-> "UnknownKeyword"]

createStringLiteral(text) == [kind |-> "StringLiteral", text |-> text]
createNumericLiteral(text) == [kind |-> "NumericLiteral", text |-> text]
\* The literal of the type `null`.
NullLiteral == [kind |-> "NullKeyword"]
createLiteralTypeNode(literal) == [kind |-> "LiteralType", literal |-> literal]
createParenthesizedType(type) == [kind |-> "ParenthesizedType", type |-> type]
createTypeReferenceNode(typeName) == [kind |-> "TypeReference", typeName |-> typeName]

isUnionTypeNode(node) == node.kind = "UnionType"
isIntersectionTypeNode(node) == node.kind = "IntersectionType"
isParenthesizedTypeNode(node) == node.kind = "ParenthesizedType"
isLiteralTypeNode(node) == node.kind = "LiteralType"
isTypeLiteralNode(node) == node.kind = "TypeLiteral"
isArrayTypeNode(node) == node.kind = "ArrayType"
isIndexSignatureDeclaration(node) == node.kind = "IndexSignature"
isPropertySignature(node) == node.kind = "PropertySignature"
isInterfaceDeclaration(node) == node.kind = "InterfaceDeclaration"
isTypeAliasDeclaration(node) == node.kind = "TypeAliasDeclaration"
isSourceFile(node) == node.kind = "SourceFile"

(* ts.factory builds nodes with its parenthesizer rules on: a union or an  *)
(* intersection that becomes a member of a union or intersection, or the   *)
(* element type of an array, is wrapped in a ParenthesizedType.            *)
parenthesizeMemberOfElementType(member) ==
    IF isUnionTypeNode(member) \/ isIntersectionTypeNode(member)
    THEN createParenthesizedType(member)
    ELSE member

RECURSIVE parenthesizeConstituentTypes(_)
parenthesizeConstituentTypes(types) ==
    IF types = <<>> THEN <<>>
    ELSE <<parenthesizeMemberOfElementType(Head(types))>>
         \o parenthesizeConstituentTypes(Tail(types))

createUnionOrIntersectionTypeNode(kind, types) ==
    [kind |-> kind, types |-> parenthesizeConstituentTypes(types)]

createIntersectionTypeNode(types) ==
    createUnionOrIntersectionTypeNode("IntersectionType", types)
updateUnionTypeNode(node, types) == createUnionOrIntersectionTypeNode(node.kind, types)

createArrayTypeNode(elementType) ==
    [kind |-> "ArrayType", elementType |-> parenthesizeMemberOfElementType(elementType)]

createTypeLiteralNode(members) == [kind |-> "TypeLiteral", members |-> members]
updateTypeLiteralNode(node, members) == [node EXCEPT !.members = members]

createParameterDeclaration(name, type) ==
    [kind |-> "Parameter", name |-> name, type |-> type]
createIndexSignature(parameters, type) ==
    [kind |-> "IndexSignature", parameters |-> parameters, type |-> type]
createPropertySignature(name, questionToken, type) ==
    [kind |-> "PropertySignature", name |-> name,
     questionToken |-> questionToken, type |-> type]

createTypeAliasDeclaration(modifiers, name, typeParameters, type) ==
    [kind |-> "TypeAliasDeclaration", modifiers |-> modifiers, name |-> name,
     typeParameters |-> typeParameters, type |-> type]
updateTypeAliasDeclaration(node, modifiers, name, typeParameters, type) ==
    createTypeAliasDeclaration(modifiers, name, typeParameters, type)

createInterfaceDeclaration(modifiers, name, typeParameters, heritageClauses, members) ==
    [kind |-> "InterfaceDeclaration", modifiers |-> modifiers, name |-> name,
     typeParameters |-> typeParameters, heritageClauses |-> heritageClauses,
     members |-> members]
updateInterfaceDeclaration(node, modifiers, name, typeParameters, heritageClauses, members) ==
    createInterfaceDeclaration(modifiers, name, typeParameters, heritageClauses, members)

\* A statement that is neither a type alias nor an interface.
createEnumDeclaration(modifiers, name) ==
    [kind |-> "EnumDeclaration", modifiers |-> modifiers, name |-> name]

createSourceFile(statements) == [kind |-> "SourceFile", statements |-> statements]

---------------------------------------------------------------------------
(* ts.visitEachChild(node, visitor, ctx): the visitor is applied to every  *)
(* child (ts.visitNodes for a node array) and the node is rebuilt by       *)
(* ts.factory from what the visitor returned.  A visitor returns a         *)
(* sequence: <<n>> for a node n, <<>> for undefined, which drops the child *)
(* from a node array.  Each visitor V of the scripts comes with V_nodes,   *)
(* ts.visitNodes(nodes, V): the visitor's results over a node array.       *)

Children(node) ==
    CASE isSourceFile(node) -> node.statements
      [] isTypeAliasDeclaration(node) -> <<node.type>>
      [] isInterfaceDeclaration(node) -> node.members
      [] isUnionTypeNode(node) \/ isIntersectionTypeNode(node) -> node.types
      [] isParenthesizedTypeNode(node) -> <<node.type>>
      [] isArrayTypeNode(node) -> <<node.elementType>>
      [] isTypeLiteralNode(node) -> node.members
      [] isPropertySignature(node) -> <<node.type>>
      [] isIndexSignatureDeclaration(node) -> <<node.type>>
      [] OTHER -> <<>>

updateChildren(node, visited) ==
    CASE isSourceFile(node) -> [node EXCEPT !.statements = visited]
      [] isTypeAliasDeclaration(node) -> [node EXCEPT !.type = visited[1]]
      [] isInterfaceDeclaration(node) -> [node EXCEPT !.members = visited]
      [] isUnionTypeNode(node) \/ isIntersectionTypeNode(node) ->
            createUnionOrIntersectionTypeNode(node.kind, visited)
      [] isParenthesizedTypeNode(node) -> createParenthesizedType(visited[1])
      [] isArrayTypeNode(node) -> createArrayTypeNode(visited[1])
      [] isTypeLiteralNode(node) -> updateTypeLiteralNode(node, visited)
      [] isPropertySignature(node) -> [node EXCEPT !.type = visited[1]]
      [] isIndexSignatureDeclaration(node) -> [node EXCEPT !.type = visited[1]]
      [] OTHER -> node

\* visitEachChild(node, visitor, ctx), given ts.visitNodes of node's children.
visitEachChild(node, visited) == updateChildren(node, visited)

---------------------------------------------------------------------------
(* attachSchemaPropToTopLevel ("index" only)                               *)

SchemaUrl == "https://json.schemastore.org/tsconfig.json"

schemaProp ==
    createPropertySignature("$schema", TRUE,
                            createLiteralTypeNode(createStringLiteral(SchemaUrl)))

\* A faulty attachSchemaPropToTopLevel_visitor: the property goes after the
\* members the interface had.
attachSchemaPropToTopLevel_visitor_appending(statement) ==
    IF isInterfaceDeclaration(statement) /\ statement.name = "CompilerOptionsDefinition"
    THEN <<updateInterfaceDeclaration(statement, statement.modifiers, statement.name,
                                      statement.typeParameters, statement.heritageClauses,
                                      statement.members \o <<schemaProp>>)>>
    ELSE <<statement>>

attachSchemaPropToTopLevel_visitor(statement) ==
    IF isInterfaceDeclaration(statement) /\ statement.name = "CompilerOptionsDefinition"
    THEN <<updateInterfaceDeclaration(statement, statement.modifiers, statement.name,
                                      statement.typeParameters, statement.heritageClauses,
                                      <<schemaProp>> \o statement.members)>>
    ELSE <<statement>>

RECURSIVE attachSchemaPropToTopLevel_nodes(_)
attachSchemaPropToTopLevel_nodes(nodes) ==
    IF nodes = <<>> THEN <<>>
    ELSE attachSchemaPropToTopLevel_visitor(Head(nodes))
         \o attachSchemaPropToTopLevel_nodes(Tail(nodes))

attachSchemaPropToTopLevel(sourceFile) ==
    visitEachChild(sourceFile, attachSchemaPropToTopLevel_nodes(Children(sourceFile)))

---------------------------------------------------------------------------
(* unionsToIntersections ("index" only)                                    *)

RECURSIVE unionsToIntersections(_)
\* child.types.map((type) => unionsToIntersections(ctx)(type))
RECURSIVE unionsToIntersections_types(_)
unionsToIntersections_types(types) ==
    IF types = <<>> THEN <<>>
    ELSE <<unionsToIntersections(Head(types))>> \o unionsToIntersections_types(Tail(types))

unionsToIntersections_visitor(child) ==
    IF isUnionTypeNode(child)
    THEN <<createIntersectionTypeNode(unionsToIntersections_types(child.types))>>
    ELSE <<unionsToIntersections(child)>>

RECURSIVE unionsToIntersections_nodes(_)
unionsToIntersections_nodes(nodes) ==
    IF nodes = <<>> THEN <<>>
    ELSE unionsToIntersections_visitor(Head(nodes))
         \o unionsToIntersections_nodes(Tail(nodes))

unionsToIntersections(node) ==
    visitEachChild(node, unionsToIntersections_nodes(Children(node)))

---------------------------------------------------------------------------
(* The root-renaming transformer                                           *)

\* A faulty isExportModifier: the filter keeps what is not an export modifier.
isExportModifier_negated(modifier) == modifier # ExportKeyword

\* statement.modifiers?.filter((modifier) => modifier.kind === ExportKeyword)
isExportModifier(modifier) == modifier = ExportKeyword
exportModifiers(modifiers) == SelectSeq(modifiers, isExportModifier)

\* src/action.ts
renameTsconfigTypeAndRemoveOtherExports_visitor(statement) ==
    IF isTypeAliasDeclaration(statement)
    THEN <<updateTypeAliasDeclaration(statement, statement.modifiers, "Tsconfig",
                                      statement.typeParameters, statement.type)>>
    ELSE IF isInterfaceDeclaration(statement)
    THEN <<updateInterfaceDeclaration(statement, exportModifiers(statement.modifiers),
                                      statement.name, statement.typeParameters,
                                      statement.heritageClauses, statement.members)>>
    ELSE <<statement>>

RECURSIVE renameTsconfigTypeAndRemoveOtherExports_nodes(_)
renameTsconfigTypeAndRemoveOtherExports_nodes(nodes) ==
    IF nodes = <<>> THEN <<>>
    ELSE renameTsconfigTypeAndRemoveOtherExports_visitor(Head(nodes))
         \o renameTsconfigTypeAndRemoveOtherExports_nodes(Tail(nodes))

renameTsconfigTypeAndRemoveOtherExports(sourceFile) ==
    visitEachChild(sourceFile,
                   renameTsconfigTypeAndRemoveOtherExports_nodes(Children(sourceFile)))

\* src/unnamed/part_000
renameTsconfigTypeForceIntersectionsRemoveOtherExports_visitor(statement) ==
    IF isTypeAliasDeclaration(statement)
    THEN <<updateTypeAliasDeclaration(statement, statement.modifiers, "Tsconfig",
                                      statement.typeParameters,
                                      unionsToIntersections(statement.type))>>
    ELSE IF isInterfaceDeclaration(statement)
    THEN <<updateInterfaceDeclaration(statement, exportModifiers(statement.modifiers),
                                      statement.name, statement.typeParameters,
                                      statement.heritageClauses, statement.members)>>
    ELSE <<statement>>

RECURSIVE renameTsconfigTypeForceIntersectionsRemoveOtherExports_nodes(_)
renameTsconfigTypeForceIntersectionsRemoveOtherExports_nodes(nodes) ==
    IF nodes = <<>> THEN <<>>
    ELSE renameTsconfigTypeForceIntersectionsRemoveOtherExports_visitor(Head(nodes))
         \o renameTsconfigTypeForceIntersectionsRemoveOtherExports_nodes(Tail(nodes))

renameTsconfigTypeForceIntersectionsRemoveOtherExports(sourceFile) ==
    visitEachChild(sourceFile,
        renameTsconfigTypeForceIntersectionsRemoveOtherExports_nodes(Children(sourceFile)))

---------------------------------------------------------------------------
(* removeStringMergedWithStringLiterals                                    *)

RECURSIVE intersectsWithStringLiteral(_)
\* A faulty intersectsWithStringLiteral: the kind of the literal is not read.
intersectsWithStringLiteral_anyLiteral(node) ==
    \/ isLiteralTypeNode(node)
    \/ /\ isUnionTypeNode(node) \/ isIntersectionTypeNode(node)
       /\ \E i \in 1..Len(node.types) : intersectsWithStringLiteral(node.types[i])
    \/ isParenthesizedTypeNode(node) /\ intersectsWithStringLiteral(node.type)

intersectsWithStringLiteral(node) ==
    \/ isLiteralTypeNode(node) /\ node.literal.kind = "StringLiteral"
    \/ /\ isUnionTypeNode(node) \/ isIntersectionTypeNode(node)
       /\ \E i \in 1..Len(node.types) : intersectsWithStringLiteral(node.types[i])
    \/ isParenthesizedTypeNode(node) /\ intersectsWithStringLiteral(node.type)

RECURSIVE removeWideStrings(_)
\* A faulty removeWideStrings_visitor: the string keyword is kept.
removeWideStrings_visitor_keeping(child) == <<removeWideStrings(child)>>

\* A faulty removeWideStrings_visitor: the number keyword goes with the string
\* keyword.
removeWideStrings_visitor_anyKeyword(child) ==
    IF child.kind \in {"StringKeyword", "NumberKeyword"}
    THEN <<>>
    ELSE <<removeWideStrings(child)>>

removeWideStrings_visitor(child) ==
    IF child.kind = "StringKeyword" THEN <<>> ELSE <<removeWideStrings(child)>>

RECURSIVE removeWideStrings_nodes(_)
removeWideStrings_nodes(nodes) ==
    IF nodes = <<>> THEN <<>>
    ELSE removeWideStrings_visitor(Head(nodes)) \o removeWideStrings_nodes(Tail(nodes))

removeWideStrings(node) ==
    IF isIntersectionTypeNode(node) \/ isUnionTypeNode(node)
    THEN visitEachChild(node, removeWideStrings_nodes(Children(node)))
    ELSE IF isParenthesizedTypeNode(node)
    THEN removeWideStrings(node.type)
    ELSE node

RECURSIVE removeStringMergedWithStringLiterals(_)
\* A faulty removeStringMergedWithStringLiterals_visitor: the wide strings are
\* removed whether or not the child intersects with a string literal.
removeStringMergedWithStringLiterals_visitor_untested(child) ==
    <<removeStringMergedWithStringLiterals(removeWideStrings(child))>>

removeStringMergedWithStringLiterals_visitor(child) ==
    IF intersectsWithStringLiteral(child)
    THEN <<removeStringMergedWithStringLiterals(removeWideStrings(child))>>
    ELSE <<removeStringMergedWithStringLiterals(child)>>

RECURSIVE removeStringMergedWithStringLiterals_nodes(_)
removeStringMergedWithStringLiterals_nodes(nodes) ==
    IF nodes = <<>> THEN <<>>
    ELSE removeStringMergedWithStringLiterals_visitor(Head(nodes))
         \o removeStringMergedWithStringLiterals_nodes(Tail(nodes))

removeStringMergedWithStringLiterals(node) ==
    visitEachChild(node, removeStringMergedWithStringLiterals_nodes(Children(node)))

---------------------------------------------------------------------------
(* removeStandaloneUnknownRecsInUnions                                     *)

\* The filter callback: FALSE for a type literal whose one member is an
\* index signature with one parameter of kind StringKeyword.
keepInUnion(type) ==
    ~ /\ isTypeLiteralNode(type)
      /\ Len(type.members) = 1
      /\ isIndexSignatureDeclaration(type.members[1])
      /\ Len(type.members[1].parameters) = 1
      /\ type.members[1].parameters[1].type.kind = "StringKeyword"

RECURSIVE removeStandaloneUnknownRecsInUnions(_)
\* The visitor (child) => removeStandaloneUnknownRecsInUnions(ctx)(child) over a node array.
RECURSIVE removeStandaloneUnknownRecsInUnions_nodes(_)
removeStandaloneUnknownRecsInUnions_nodes(nodes) ==
    IF nodes = <<>> THEN <<>>
    ELSE <<removeStandaloneUnknownRecsInUnions(Head(nodes))>>
         \o removeStandaloneUnknownRecsInUnions_nodes(Tail(nodes))

\* A faulty removeStandaloneUnknownRecsInUnions_kept: a kept member is
\* returned without a visit of its children.
removeStandaloneUnknownRecsInUnions_kept_unvisited(type) == type

\* The callback of keep.map: a kept member with its children visited.
removeStandaloneUnknownRecsInUnions_kept(type) ==
    visitEachChild(type, removeStandaloneUnknownRecsInUnions_nodes(Children(type)))

RECURSIVE removeStandaloneUnknownRecsInUnions_keepMap(_)
removeStandaloneUnknownRecsInUnions_keepMap(keep) ==
    IF keep = <<>> THEN <<>>
    ELSE <<removeStandaloneUnknownRecsInUnions_kept(Head(keep))>>
         \o removeStandaloneUnknownRecsInUnions_keepMap(Tail(keep))

removeStandaloneUnknownRecsInUnions(node) ==
    IF isUnionTypeNode(node)
    THEN updateUnionTypeNode(node,
            removeStandaloneUnknownRecsInUnions_keepMap(SelectSeq(node.types, keepInUnion)))
    ELSE visitEachChild(node, removeStandaloneUnknownRecsInUnions_nodes(Children(node)))

---------------------------------------------------------------------------
(* removeUnknownIndexSignatures                                            *)

\* A faulty isRemovableIndexSignature: only the sibling before counts.
isRemovableIndexSignature_previousOnly(members, i) ==
    /\ isIndexSignatureDeclaration(members[i])
    /\ Len(members[i].parameters) >= 1
    /\ members[i].parameters[1].type.kind = "StringKeyword"
    /\ members[i].type.kind = "UnknownKeyword"
    /\ i - 1 >= 1

\* The test of the reduce callback on member i (1-based) of child.members.
isRemovableIndexSignature(members, i) ==
    /\ isIndexSignatureDeclaration(members[i])
    /\ Len(members[i].parameters) >= 1
    /\ members[i].parameters[1].type.kind = "StringKeyword"
    /\ members[i].type.kind = "UnknownKeyword"
    /\ (i - 1 >= 1 \/ i + 1 <= Len(members))

RECURSIVE removeUnknownIndexSignatures(_, _)
\* child.members.reduce(...) from member i on: the members kept, each visited.
RECURSIVE removeUnknownIndexSignatures_reduce(_, _, _)
removeUnknownIndexSignatures_reduce(v, members, i) ==
    IF i > Len(members) THEN <<>>
    ELSE (IF isRemovableIndexSignature(members, i)
          THEN <<>>
          ELSE <<removeUnknownIndexSignatures(v, members[i])>>)
         \o removeUnknownIndexSignatures_reduce(v, members, i + 1)

\* The interface rebuilt with the kept members: src/action.ts passes undefined
\* for decorators, modifiers, typeParameters and heritageClauses.
removeUnknownIndexSignatures_updateInterface(v, child, keep) ==
    IF v = "action"
    THEN updateInterfaceDeclaration(child, <<>>, child.name, <<>>, <<>>, keep)
    ELSE updateInterfaceDeclaration(child, child.modifiers, child.name,
                                    child.typeParameters, child.heritageClauses, keep)

removeUnknownIndexSignatures_visitor(v, child) ==
    IF isInterfaceDeclaration(child)
    THEN <<removeUnknownIndexSignatures_updateInterface(v, child,
              removeUnknownIndexSignatures_reduce(v, child.members, 1))>>
    ELSE IF isTypeLiteralNode(child)
    THEN <<updateTypeLiteralNode(child,
              removeUnknownIndexSignatures_reduce(v, child.members, 1))>>
    ELSE <<removeUnknownIndexSignatures(v, child)>>

RECURSIVE removeUnknownIndexSignatures_nodes(_, _)
removeUnknownIndexSignatures_nodes(v, nodes) ==
    IF nodes = <<>> THEN <<>>
    ELSE removeUnknownIndexSignatures_visitor(v, Head(nodes))
         \o removeUnknownIndexSignatures_nodes(v, Tail(nodes))

removeUnknownIndexSignatures(v, node) ==
    visitEachChild(node, removeUnknownIndexSignatures_nodes(v, Children(node)))

---------------------------------------------------------------------------
(* getTransformerFactories and transformer                                 *)

\* A faulty getTransformerFactories: the wide strings go before the
\* standalone unknown records.
getTransformerFactories_stringsFirst(v) ==
    IF v = "action"
    THEN << "renameTsconfigTypeAndRemoveOtherExports",
            "removeStringMergedWithStringLiterals",
            "removeStandaloneUnknownRecsInUnions",
            "removeUnknownIndexSignatures" >>
    ELSE << "attachSchemaPropToTopLevel",
            "renameTsconfigTypeForceIntersectionsRemoveOtherExports",
            "removeStringMergedWithStringLiterals",
            "removeStandaloneUnknownRecsInUnions",
            "removeUnknownIndexSignatures" >>

getTransformerFactories(v) ==
    IF v = "action"
    THEN << "renameTsconfigTypeAndRemoveOtherExports",
            "removeStandaloneUnknownRecsInUnions",
            "removeStringMergedWithStringLiterals",
            "removeUnknownIndexSignatures" >>
    ELSE << "attachSchemaPropToTopLevel",
            "renameTsconfigTypeForceIntersectionsRemoveOtherExports",
            "removeStandaloneUnknownRecsInUnions",
            "removeStringMergedWithStringLiterals",
            "removeUnknownIndexSignatures" >>

\* A faulty callTransformer: the pass hands back the first statement of the
\* source file instead of the source file.
callTransformer_firstStatement(v, transform, node) == node.statements[1]

\* transform(ctx)(result) for the factory named transform.
callTransformer(v, transform, node) ==
    CASE transform = "attachSchemaPropToTopLevel" -> attachSchemaPropToTopLevel(node)
      [] transform = "renameTsconfigTypeAndRemoveOtherExports" ->
            renameTsconfigTypeAndRemoveOtherExports(node)
      [] transform = "renameTsconfigTypeForceIntersectionsRemoveOtherExports" ->
            renameTsconfigTypeForceIntersectionsRemoveOtherExports(node)
      [] transform = "removeStandaloneUnknownRecsInUnions" ->
            removeStandaloneUnknownRecsInUnions(node)
      [] transform = "removeStringMergedWithStringLiterals" ->
            removeStringMergedWithStringLiterals(node)
      [] transform = "removeUnknownIndexSignatures" ->
            removeUnknownIndexSignatures(v, node)

---------------------------------------------------------------------------
(* The source files the runs start from: trees as ts.createSourceFile      *)
(* builds them.  The parser puts a union or intersection that is a member  *)
(* of a union or intersection, or the element type of an array, inside a   *)
(* ParenthesizedType; a union with one member is what a leading | parses   *)
(* to.                                                                     *)

MaxWidth == 2        \* members of a union, intersection or type literal of atoms
MaxDepth == 2        \* nesting of composite types
MaxStatements == 2   \* top-level statements of a source file

LitA == createLiteralTypeNode(createStringLiteral("a"))
IndexParameter(type) == <<createParameterDeclaration("k", type)>>
UnknownRecMember == createIndexSignature(IndexParameter(StringKeyword), UnknownKeyword)
UnknownRec == createTypeLiteralNode(<<UnknownRecMember>>)
OptionalString == createPropertySignature("p", TRUE, StringKeyword)

Atoms == {StringKeyword, NumberKeyword, LitA, UnknownRec}

SimpleElements ==
    {UnknownRecMember,
     createIndexSignature(IndexParameter(NumberKeyword), UnknownKeyword),
     createIndexSignature(IndexParameter(StringKeyword), StringKeyword),
     OptionalString}

SeqsUpTo(set, n) == UNION {[1..k -> set] : k \in 1..n}

ParsedMember(type) == parenthesizeMemberOfElementType(type)
ParsedUnion(types) == [kind |-> "UnionType", types |-> types]
ParsedIntersection(types) == [kind |-> "IntersectionType", types |-> types]
ParsedArray(elementType) == [kind |-> "ArrayType", elementType |-> ParsedMember(elementType)]

\* Composite types whose members are atoms.
FlatTypes ==
    {ParsedUnion(ts) : ts \in SeqsUpTo(Atoms, MaxWidth)}
    \cup {ParsedIntersection(ts) : ts \in SeqsUpTo(Atoms \ {UnknownRec}, MaxWidth)}
    \cup {ParsedArray(t) : t \in Atoms}
    \cup {createParenthesizedType(t) : t \in Atoms}
    \cup {createTypeLiteralNode(ms) : ms \in SeqsUpTo(SimpleElements, MaxWidth)}

\* The member lists of a shape that holds type t.
NestingMemberLists(t) ==
    {<<createPropertySignature("p", TRUE, t)>>,
     <<createPropertySignature("p", TRUE, t), UnknownRecMember>>,
     <<createIndexSignature(IndexParameter(StringKeyword), t)>>}

\* Composite types that hold type t, alone or beside one sibling.
NestingTypes(t) ==
    {ParsedUnion(<<LitA, ParsedMember(t)>>),
     ParsedUnion(<<StringKeyword, ParsedMember(t)>>),
     ParsedUnion(<<ParsedMember(t), UnknownRec>>),
     ParsedIntersection(<<ParsedMember(t), StringKeyword>>),
     ParsedArray(t),
     createParenthesizedType(t)}
    \cup {createTypeLiteralNode(ms) : ms \in NestingMemberLists(t)}

RECURSIVE TypesOfDepth(_)
TypesOfDepth(d) ==
    IF d = 0 THEN Atoms
    ELSE IF d = 1 THEN Atoms \cup FlatTypes
    ELSE LET inner == TypesOfDepth(d - 1)
         IN inner \cup UNION {NestingTypes(t) : t \in inner}

\* Source files of one statement with a type or a member list of full depth.
DeepStatements ==
    {createTypeAliasDeclaration(<<ExportKeyword>>, "Root", <<>>, t) :
        t \in TypesOfDepth(MaxDepth)}
    \cup {createInterfaceDeclaration(<<ExportKeyword>>, "CompilerOptionsDefinition",
                                     <<>>, <<>>, ms) :
            ms \in SeqsUpTo(SimpleElements, MaxWidth)
                   \cup UNION {NestingMemberLists(t) : t \in TypesOfDepth(MaxDepth - 1)}}

\* Statements of source files of several statements.
PlainStatements ==
    {createTypeAliasDeclaration(m, n, <<>>, ParsedUnion(<<LitA, StringKeyword, UnknownRec>>)) :
        m \in {<<>>, <<ExportKeyword>>}, n \in {"Root", "Other"}}
    \cup {createInterfaceDeclaration(m, h[1], h[2], h[3], <<UnknownRecMember>>) :
            m \in {<<>>, <<ExportKeyword>>, <<ExportKeyword, DeclareKeyword>>},
            h \in {<<"CompilerOptionsDefinition", <<>>, <<>> >>,
                   <<"Tsconfig", <<"T">>, <<"Base">> >>}}
    \cup {createEnumDeclaration(m, "E") : m \in {<<>>, <<ExportKeyword>>}}

\* A root alias `type Root = (A) | B`, or `type Root = A | B` with the members
\* of A written out, A string literals with the wide string and B the name of
\* an interface.
LiteralsWithWideString ==
    {ParsedUnion(<<LitA, StringKeyword>>),
     ParsedUnion(<<StringKeyword, LitA>>),
     ParsedIntersection(<<LitA, StringKeyword>>)}

RootTypes(B) ==
    {ParsedUnion(<<ParsedMember(A), createTypeReferenceNode(B)>>) :
        A \in LiteralsWithWideString}
    \cup {ParsedUnion(<<LitA, StringKeyword, createTypeReferenceNode(B)>>)}

ReferredMemberLists ==
    {<<OptionalString>>,
     <<createPropertySignature("p", TRUE, NumberKeyword), UnknownRecMember>>,
     <<createPropertySignature("p", TRUE, ParsedUnion(<<LitA, StringKeyword>>))>>,
     <<createPropertySignature("p", TRUE, ParsedUnion(<<NumberKeyword, UnknownRec>>))>>}

RootAndInterfaceFiles ==
    {createSourceFile(<<createTypeAliasDeclaration(<<ExportKeyword>>, "Root", <<>>, t),
                        createInterfaceDeclaration(<<ExportKeyword>>, B, <<>>, <<>>, ms)>>) :
        B \in {"B", "CompilerOptionsDefinition"},
        t \in RootTypes("B") \cup RootTypes("CompilerOptionsDefinition"),
        ms \in ReferredMemberLists}

\* Root aliases with literal types that are no string literals: `1` and `null`.
LitOne == createLiteralTypeNode(createNumericLiteral("1"))
LitNull == createLiteralTypeNode(NullLiteral)

OtherLiteralTypes ==
    {LitOne,
     LitNull,
     createParenthesizedType(LitOne),
     ParsedUnion(<<LitOne, StringKeyword>>),
     ParsedUnion(<<StringKeyword, LitNull>>),
     ParsedUnion(<<LitA, LitOne, StringKeyword>>),
     ParsedIntersection(<<LitOne, StringKeyword>>),
     ParsedUnion(<<createParenthesizedType(ParsedUnion(<<LitOne, StringKeyword>>)), LitA>>),
     ParsedUnion(<<createParenthesizedType(ParsedUnion(<<LitOne, StringKeyword>>)),
                   NumberKeyword>>),
     ParsedArray(ParsedUnion(<<LitA, LitOne>>)),
     ParsedArray(LitOne)}

OtherLiteralFiles ==
    {createSourceFile(<<createTypeAliasDeclaration(<<ExportKeyword>>, "Root", <<>>, t)>>) :
        t \in OtherLiteralTypes}

SourceFiles ==
    {createSourceFile(<<s>>) : s \in DeepStatements}
    \cup {createSourceFile(ss) : ss \in SeqsUpTo(PlainStatements, MaxStatements)}
    \cup RootAndInterfaceFiles
    \cup OtherLiteralFiles

Variants == {"action", "index"}

---------------------------------------------------------------------------
(* The state machine                                                       *)

\* No execution of main under way: the files as the repository has them.
mainIdle ==
    /\ devFile = FALSE
    /\ checksumJson = ""
    /\ theTypeDts = ""
    /\ previousChecksum = ""
    /\ runs = <<>>
    /\ svRunning = {}
    /\ log = <<>>
    /\ executing = FALSE
    /\ executions = 0
    /\ released = ""
    /\ releasedBefore = ""

Init ==
    /\ variant \in Variants
    /\ initialSourceFile \in SourceFiles
    /\ result = initialSourceFile
    /\ applied = <<>>
    /\ pc = "reduce"
    /\ mainIdle

\* One round of the reduce in transformer.
transformerStep ==
    /\ pc = "reduce"
    /\ Len(applied) < Len(getTransformerFactories(variant))
    /\ LET transform == getTransformerFactories(variant)[Len(applied) + 1]
           nextResult == callTransformer(variant, transform, result)
       IN IF ~isSourceFile(nextResult)
          THEN pc' = "thrown" /\ UNCHANGED <<result, applied>>
          ELSE result' = nextResult /\ applied' = Append(applied, transform)
               /\ UNCHANGED pc
    /\ UNCHANGED <<variant, initialSourceFile>>
    /\ UNCHANGED mainVars

\* The reduce is through: transformer returns result.
transformerReturn ==
    /\ pc = "reduce"
    /\ Len(applied) = Len(getTransformerFactories(variant))
    /\ pc' = "done"
    /\ UNCHANGED <<variant, initialSourceFile, result, applied>>
    /\ UNCHANGED mainVars

Next == transformerStep \/ transformerReturn

Spec == Init /\ [][Next]_vars

\* One transformer factory of the variant called on its own on a source file.
passAlone ==
    /\ pc = "reduce"
    /\ applied = <<>>
    /\ \E k \in 1..Len(getTransformerFactories(variant)) :
          LET transform == getTransformerFactories(variant)[k]
          IN /\ result' = callTransformer(variant, transform, result)
             /\ applied' = <<transform>>
    /\ pc' = "pass"
    /\ UNCHANGED <<variant, initialSourceFile>>
    /\ UNCHANGED mainVars

PassNext == passAlone

PassSpec == Init /\ [][PassNext]_vars

---------------------------------------------------------------------------
(* main: one execution of the script is a process that calls main once or  *)
(* twice; a call runs from await to await, and what lies between two       *)
(* awaits is one step.  npm run dev and npm run prod start executions.     *)

MaxExecutions == 3   \* executions of the script in a row

\* The bodies a response can carry, one of them no JSON, and "error" for a
\* response that emits error.
ValidBodies == {"s1", "s2"}
InvalidBody == "<html>"
Responses == ValidBodies \cup {InvalidBody, "error"}

\* json2Ts.compile, ts.createSourceFile, ts.transform, printFile and
\* prettier.format: the formatted source a schema comes out as.
transformedSourceFormatted(body) == IF body = "s1" THEN "d1" ELSE "d2"

\* crypto.createHash("md5") ... digest("hex")
md5(source) == IF source = "d1" THEN "h1" ELSE IF source = "d2" THEN "h2" ELSE "h0"

\* The calls of main at the end of the script.  src/action.ts declares main
\* twice and calls it at lines 12 and 329: with the later declaration
\* hoisted both calls run it, otherwise the call at line 329 alone.
mainCalls(v) == IF v = "action" THEN {1, 2} ELSE {2}

\* A faulty inDevelopment: the script takes itself for a production run.
inDevelopment_never(dev) == FALSE

\* fs.promises.stat(dev) resolved (true) or not (false).
inDevelopment(dev) == dev

\* A faulty alreadyReleased: the checksums are not compared.
alreadyReleased_never(checksum, previous) == FALSE

\* checksum === previousChecksum
alreadyReleased(checksum, previous) == checksum = previous

\* What a call does between the write of the_type.d.ts and its next await,
\* or its end: cp.execSync and sv, in order.
commandsAfterWrite(v) ==
    IF v = "action"
    THEN <<"gitAdd", "gitCommit", "svStart", "gitPush", "npmPublish">>
    ELSE <<"gitConfig", "gitAdd", "gitCommit", "svStart">>

Did(r, what) == [run |-> r, did |-> what]

RECURSIVE DidAll(_, _)
DidAll(r, whats) ==
    IF whats = <<>> THEN <<>> ELSE <<Did(r, Head(whats))>> \o DidAll(r, Tail(whats))

mainCalled == [pc |-> "stat", devMode |-> FALSE, body |-> "", formatted |-> "",
               checksum |-> ""]

MainInit ==
    /\ variant \in Variants
    /\ initialSourceFile = createSourceFile(<<>>)
    /\ result = initialSourceFile
    /\ applied = <<>>
    /\ pc = "main"
    /\ mainIdle

\* node index.ts: the imports are evaluated, then main is called.
scriptStarts(calls) ==
    /\ previousChecksum' = checksumJson'
    /\ runs' = [r \in 1..calls |-> mainCalled]
    /\ svRunning' = {}
    /\ log' = <<>>
    /\ executing' = TRUE
    /\ executions' = executions + 1
    /\ releasedBefore' = released
    /\ UNCHANGED <<theTypeDts, released>>
    /\ UNCHANGED transformVars

\* npm run dev: reset_checksum, echo "" > dev, npm run ex.
npmRunDev ==
    /\ pc = "main" /\ ~executing /\ executions < MaxExecutions
    /\ checksumJson' = ""
    /\ devFile' = TRUE
    /\ \E calls \in mainCalls(variant) : scriptStarts(calls)

\* npm run prod: rm dev, npm run ex.
npmRunProd ==
    /\ pc = "main" /\ ~executing /\ executions < MaxExecutions
    /\ devFile' = FALSE
    /\ UNCHANGED checksumJson
    /\ \E calls \in mainCalls(variant) : scriptStarts(calls)

Running(r) == pc = "main" /\ executing /\ r \in DOMAIN runs

\* The stat of dev settles; the call goes on to https.get.
statSettles(r) ==
    /\ Running(r) /\ runs[r].pc = "stat"
    /\ runs' = [runs EXCEPT ![r].devMode = inDevelopment(devFile), ![r].pc = "fetch"]
    /\ log' = Append(log, Did(r, "httpsGet"))
    /\ UNCHANGED <<devFile, checksumJson, theTypeDts, previousChecksum, svRunning,
                   executing, executions, released, releasedBefore>>
    /\ UNCHANGED transformVars

\* The response emits error (reject), or closes: JSON.parse(source) is
\* resolved with, or throws inside the async close callback, and then the
\* promise main awaits is neither resolved nor rejected.
fetchSettles(r) ==
    /\ Running(r) /\ runs[r].pc = "fetch"
    /\ \E response \in Responses :
          runs' = [runs EXCEPT ![r] =
                      IF response = "error" THEN [@ EXCEPT !.pc = "rejected"]
                      ELSE IF response = InvalidBody
                      THEN [@ EXCEPT !.pc = "pending", !.body = response]
                      ELSE [@ EXCEPT !.pc = "compile", !.body = response]]
    /\ UNCHANGED <<devFile, checksumJson, theTypeDts, previousChecksum, svRunning,
                   log, executing, executions, released, releasedBefore>>
    /\ UNCHANGED transformVars

\* json2Ts.compile settles; the source is transformed, printed and formatted,
\* and outside development the checksum is made and compared.
compileSettles(r) ==
    /\ Running(r) /\ runs[r].pc = "compile"
    /\ LET formatted == transformedSourceFormatted(runs[r].body)
           checksum == md5(formatted)
       IN runs' = [runs EXCEPT ![r] =
                      IF runs[r].devMode
                      THEN [@ EXCEPT !.formatted = formatted, !.pc = "writeTheType"]
                      ELSE IF alreadyReleased(checksum, previousChecksum)
                      THEN [@ EXCEPT !.formatted = formatted, !.checksum = checksum,
                                     !.pc = "alreadyReleased"]
                      ELSE [@ EXCEPT !.formatted = formatted, !.checksum = checksum,
                                     !.pc = "writeChecksum"]]
    /\ UNCHANGED <<devFile, checksumJson, theTypeDts, previousChecksum, svRunning,
                   log, executing, executions, released, releasedBefore>>
    /\ UNCHANGED transformVars

\* The write of checksum.json settles.
writeChecksumSettles(r) ==
    /\ Running(r) /\ runs[r].pc = "writeChecksum"
    /\ \E written \in BOOLEAN :
          IF written
          THEN /\ checksumJson' = runs[r].checksum
               /\ log' = Append(log, Did(r, "writeChecksum"))
               /\ runs' = [runs EXCEPT ![r].pc = "writeTheType"]
          ELSE /\ runs' = [runs EXCEPT ![r].pc = "rejected"]
               /\ UNCHANGED <<checksumJson, log>>
    /\ UNCHANGED <<devFile, theTypeDts, previousChecksum, svRunning,
                   executing, executions, released, releasedBefore>>
    /\ UNCHANGED transformVars


\* The write of the_type.d.ts settles; outside development the commands up
\* to the next await follow at once, until one of them fails.  sv(...) is
\* awaited in src/unnamed/part_000 and left running in src/action.ts.
writeTheTypeSettles(r) ==
    /\ Running(r) /\ runs[r].pc = "writeTheType"
    /\ \E written \in BOOLEAN :
          IF ~written
          THEN /\ runs' = [runs EXCEPT ![r].pc = "rejected"]
               /\ UNCHANGED <<theTypeDts, log, svRunning, released>>
          ELSE /\ theTypeDts' = runs[r].formatted
               /\ IF runs[r].devMode
                  THEN /\ log' = Append(log, Did(r, "writeTheType"))
                       /\ runs' = [runs EXCEPT ![r].pc = "done"]
                       /\ UNCHANGED <<svRunning, released>>
                  ELSE LET commands == commandsAfterWrite(variant)
                       IN \E k \in 0..Len(commands) :
                             /\ k < Len(commands) => commands[k + 1] # "svStart"
                             /\ log' = Append(log, Did(r, "writeTheType"))
                                          \o DidAll(r, SubSeq(commands, 1, k))
                             /\ svRunning' =
                                   IF variant = "action"
                                      /\ \E i \in 1..k : commands[i] = "svStart"
                                   THEN svRunning \cup {r}
                                   ELSE svRunning
                             /\ runs' = [runs EXCEPT ![r].pc =
                                            IF k < Len(commands) THEN "rejected"
                                            ELSE IF variant = "action" THEN "done"
                                            ELSE "sv"]
                             /\ released' =
                                   IF k = Len(commands) /\ variant = "action"
                                   THEN runs[r].formatted
                                   ELSE released
    /\ UNCHANGED <<devFile, checksumJson, previousChecksum,
                   executing, executions, releasedBefore>>
    /\ UNCHANGED transformVars

\* src/unnamed/part_000: the awaited sv(...) settles and git push follows.
svSettles(r) ==
    /\ Running(r) /\ runs[r].pc = "sv"
    /\ \E outcome \in {"svFailed", "pushFailed", "pushed"} :
          /\ log' = log \o DidAll(r, CASE outcome = "svFailed" -> <<>>
                                       [] outcome = "pushFailed" -> <<"svDone">>
                                       [] outcome = "pushed" -> <<"svDone", "gitPush">>)
          /\ runs' = [runs EXCEPT ![r].pc = IF outcome = "pushed" THEN "done" ELSE "rejected"]
          /\ released' = IF outcome = "pushed" THEN runs[r].formatted ELSE released
    /\ UNCHANGED <<devFile, checksumJson, theTypeDts, previousChecksum, svRunning,
                   executing, executions, releasedBefore>>
    /\ UNCHANGED transformVars

\* src/action.ts: the sv(...) nobody awaits gets through, or fails.
svCompletes(r) ==
    /\ pc = "main" /\ executing /\ r \in svRunning
    /\ svRunning' = svRunning \ {r}
    /\ \E bumped \in BOOLEAN :
          log' = IF bumped THEN Append(log, Did(r, "svDone")) ELSE log
    /\ UNCHANGED <<devFile, checksumJson, theTypeDts, previousChecksum, runs,
                   executing, executions, released, releasedBefore>>
    /\ UNCHANGED transformVars

Settled == {"done", "rejected", "alreadyReleased", "pending", "killed"}

\* The process ends: nothing is left to wait for, or a rejection nobody
\* handles takes the process down with whatever the other call was at.
processExit ==
    /\ pc = "main" /\ executing
    /\ \/ svRunning = {} /\ \A r \in DOMAIN runs : runs[r].pc \in Settled
       \/ \E r \in DOMAIN runs : runs[r].pc \in {"rejected", "alreadyReleased", "pending"}
    /\ runs' = [r \in DOMAIN runs |->
                  IF runs[r].pc \in Settled THEN runs[r]
                  ELSE [runs[r] EXCEPT !.pc = "killed"]]
    /\ svRunning' = {}
    /\ executing' = FALSE
    /\ UNCHANGED <<devFile, checksumJson, theTypeDts, previousChecksum,
                   log, executions, released, releasedBefore>>
    /\ UNCHANGED transformVars

MainNext ==
    \/ npmRunDev
    \/ npmRunProd
    \/ \E r \in 1..2 : statSettles(r)
    \/ \E r \in 1..2 : fetchSettles(r)
    \/ \E r \in 1..2 : compileSettles(r)
    \/ \E r \in 1..2 : writeChecksumSettles(r)
    \/ \E r \in 1..2 : writeTheTypeSettles(r)
    \/ \E r \in 1..2 : svSettles(r)
    \/ \E r \in 1..2 : svCompletes(r)
    \/ processExit

MainSpec == MainInit /\ [][MainNext]_vars

---------------------------------------------------------------------------
(* Notions the claims are stated in.                                       *)

\* Every node of the tree under node, node included.
RECURSIVE NodesOf(_)
NodesOf(node) ==
    {node} \cup UNION {NodesOf(Children(node)[i]) : i \in 1..Len(Children(node))}

IsUnionOrIntersection(node) == node.kind \in {"UnionType", "IntersectionType"}

IsStringLiteralType(node) ==
    node.kind = "LiteralType" /\ node.literal.kind = "StringLiteral"

\* "Intersects with a string literal", as section 4.1 of the specification has it.
RECURSIVE IntersectsStringLiteral(_)
IntersectsStringLiteral(node) ==
    CASE IsStringLiteralType(node) -> TRUE
      [] IsUnionOrIntersection(node) ->
            \E i \in 1..Len(node.types) : IntersectsStringLiteral(node.types[i])
      [] node.kind = "ParenthesizedType" -> IntersectsStringLiteral(node.type)
      [] OTHER -> FALSE

IsWideString(node) == node.kind = "StringKeyword"

\* A union or intersection that intersects with a string literal and has the
\* string keyword as a member.
WideStringBesideLiteral(node) ==
    /\ IsUnionOrIntersection(node)
    /\ IntersectsStringLiteral(node)
    /\ \E i \in 1..Len(node.types) : IsWideString(node.types[i])

\* The texts of the string-literal types of a tree, in source order.
RECURSIVE StringLiteralsOf(_)
RECURSIVE StringLiteralsOfAll(_)
StringLiteralsOfAll(nodes) ==
    IF nodes = <<>> THEN <<>>
    ELSE StringLiteralsOf(Head(nodes)) \o StringLiteralsOfAll(Tail(nodes))
StringLiteralsOf(node) ==
    IF IsStringLiteralType(node) THEN <<node.literal.text>>
    ELSE StringLiteralsOfAll(Children(node))

IsStringKeyedIndexSignature(member) ==
    /\ member.kind = "IndexSignature"
    /\ Len(member.parameters) = 1
    /\ member.parameters[1].type = StringKeyword

\* An object type literal whose only member is a string-keyed index signature.
IsStandaloneRec(type) ==
    /\ type.kind = "TypeLiteral"
    /\ Len(type.members) = 1
    /\ IsStringKeyedIndexSignature(type.members[1])

HasStandaloneRec(union) == \E i \in 1..Len(union.types) : IsStandaloneRec(union.types[i])

\* A string-keyed index signature with value type unknown.
IsUnknownIndexSignature(member) ==
    IsStringKeyedIndexSignature(member) /\ member.type = UnknownKeyword

IsShape(node) == node.kind \in {"InterfaceDeclaration", "TypeLiteral"}

Ran(transform) == pc = "pass" /\ applied = <<transform>>

RanRootRenaming ==
    \/ Ran("renameTsconfigTypeAndRemoveOtherExports")
    \/ Ran("renameTsconfigTypeForceIntersectionsRemoveOtherExports")

Exported(statement) ==
    \E k \in 1..Len(statement.modifiers) : statement.modifiers[k] = ExportKeyword

---------------------------------------------------------------------------
(* C1: order of the passes                                                 *)

\* The number section 4.1 of the specification gives each pass; attaching the
\* $schema property is listed there as variant behaviour of pass 1.
PassNumber(transform) ==
    CASE transform = "attachSchemaPropToTopLevel" -> 1
      [] transform = "renameTsconfigTypeAndRemoveOtherExports" -> 1
      [] transform = "renameTsconfigTypeForceIntersectionsRemoveOtherExports" -> 1
      [] transform = "removeStringMergedWithStringLiterals" -> 2
      [] transform = "removeStandaloneUnknownRecsInUnions" -> 3
      [] transform = "removeUnknownIndexSignatures" -> 4

\* The pass numbers of the transformers applied, a repeated number written once.
RECURSIVE PassOrder(_)
PassOrder(transforms) ==
    IF transforms = <<>> THEN <<>>
    ELSE LET rest == PassOrder(Tail(transforms))
             n == PassNumber(Head(transforms))
         IN IF rest # <<>> /\ Head(rest) = n THEN rest ELSE <<n>> \o rest

IsPrefix(s, t) == Len(s) <= Len(t) /\ \A i \in 1..Len(s) : s[i] = t[i]

\* The tree the transformers named give when each is handed the whole tree
\* its predecessor returned.
RECURSIVE Threaded(_, _)
Threaded(transforms, tree) ==
    IF transforms = <<>> THEN tree
    ELSE Threaded(Tail(transforms), callTransformer(variant, Head(transforms), tree))

\* C1 as stated: transform applies pass 1, then the wide-string removal, then
\* the removal of standalone unknown records, then the stripping of unknown
\* index signatures.
C1_OrderAsStated ==
    pc = "done" => PassOrder(applied) = <<1, 2, 3, 4>>

\* C1 amended: the passes run in the order 1, 3, 2, 4 (the standalone unknown
\* records go before the wide strings), every pass is handed the complete
\* tree the pass before it returned, and a finished run has run all four.
C1_OrderAsCoded ==
    /\ IsPrefix(PassOrder(applied), <<1, 3, 2, 4>>)
    /\ result = Threaded(applied, initialSourceFile)
    /\ pc = "done" => PassOrder(applied) = <<1, 3, 2, 4>>

\* A finished run in which the record removal and then the wide-string
\* removal each changed the tree they were handed.
C1_Witness ==
    /\ pc = "done"
    /\ LET n == Len(applied)
           before3 == Threaded(SubSeq(applied, 1, n - 3), initialSourceFile)
           before2 == Threaded(SubSeq(applied, 1, n - 2), initialSourceFile)
           before4 == Threaded(SubSeq(applied, 1, n - 1), initialSourceFile)
       IN /\ applied[n - 2] = "removeStandaloneUnknownRecsInUnions"
          /\ applied[n - 1] = "removeStringMergedWithStringLiterals"
          /\ before2 # before3
          /\ before4 # before2

---------------------------------------------------------------------------
(* C2: removeStringMergedWithStringLiterals                                *)

\* C2: after pass 2 no union or intersection that intersects with a string
\* literal has the string keyword as a member, at any depth and inside
\* parentheses, and the string literals of the input are all still there.
C2_NoWideStringBesideLiteral ==
    Ran("removeStringMergedWithStringLiterals") =>
        /\ \A n \in NodesOf(result) : ~WideStringBesideLiteral(n)
        /\ StringLiteralsOf(result) = StringLiteralsOf(initialSourceFile)

---------------------------------------------------------------------------
(* C3: removeStandaloneUnknownRecsInUnions                                 *)

\* The tree with every standalone record taken out of every union, all else
\* kept in order.
RECURSIVE WithoutStandaloneRecs(_)
RECURSIVE WithoutStandaloneRecsAll(_, _)
WithoutStandaloneRecsAll(inUnion, nodes) ==
    IF nodes = <<>> THEN <<>>
    ELSE (IF inUnion /\ IsStandaloneRec(Head(nodes))
          THEN <<>>
          ELSE <<WithoutStandaloneRecs(Head(nodes))>>)
         \o WithoutStandaloneRecsAll(inUnion, Tail(nodes))
WithoutStandaloneRecs(node) ==
    updateChildren(node, WithoutStandaloneRecsAll(node.kind = "UnionType", Children(node)))

\* C3: pass 3 removes from every union each member that is an object type
\* literal whose only member is a string-keyed index signature, keeps the
\* other members in order, and does the same in the unions nested in them.
C3_StandaloneRecsRemoved ==
    Ran("removeStandaloneUnknownRecsInUnions") =>
        result = WithoutStandaloneRecs(initialSourceFile)

\* The pass ran on a union with a standalone record and a kept member that
\* holds a union with a standalone record of its own.
C3_Witness ==
    /\ Ran("removeStandaloneUnknownRecsInUnions")
    /\ \E n \in NodesOf(initialSourceFile) :
          /\ n.kind = "UnionType"
          /\ HasStandaloneRec(n)
          /\ \E j \in 1..Len(n.types) :
                /\ ~IsStandaloneRec(n.types[j])
                /\ \E m \in NodesOf(n.types[j]) :
                      m.kind = "UnionType" /\ HasStandaloneRec(m)

---------------------------------------------------------------------------
(* C4, C5: removeUnknownIndexSignatures                                    *)

\* The tree with the unknown index signatures taken out of every shape of
\* two or more members, all else kept in order.
RECURSIVE WithoutUnknownIndexSignatures(_)
RECURSIVE WithoutUnknownIndexSignaturesAll(_, _)
WithoutUnknownIndexSignaturesAll(strip, nodes) ==
    IF nodes = <<>> THEN <<>>
    ELSE (IF strip /\ IsUnknownIndexSignature(Head(nodes))
          THEN <<>>
          ELSE <<WithoutUnknownIndexSignatures(Head(nodes))>>)
         \o WithoutUnknownIndexSignaturesAll(strip, Tail(nodes))
WithoutUnknownIndexSignatures(node) ==
    updateChildren(node,
        WithoutUnknownIndexSignaturesAll(IsShape(node) /\ Len(Children(node)) >= 2,
                                         Children(node)))

C5_SoleIndexSignatureUntouched ==
    Ran("removeUnknownIndexSignatures") =>
        \A i \in 1..Len(initialSourceFile.statements) :
            LET statement == initialSourceFile.statements[i]
            IN (/\ statement.kind = "InterfaceDeclaration"
                /\ Len(statement.members) = 1
                /\ IsUnknownIndexSignature(statement.members[1]))
               => result.statements[i] = statement

---------------------------------------------------------------------------
(* C6 - C9: the root-renaming pass                                         *)

NamesDistinct(statements) ==
    \A i, j \in 1..Len(statements) : statements[i].name = statements[j].name => i = j

\* C6: after pass 1 exactly one top-level declaration is named Tsconfig, and
\* it is a type alias, whenever the names of the input's declarations are
\* pairwise distinct and the input has a type alias.
C6_ExactlyOneTsconfig ==
    (/\ RanRootRenaming
     /\ NamesDistinct(initialSourceFile.statements)
     /\ \E i \in 1..Len(initialSourceFile.statements) :
            initialSourceFile.statements[i].kind = "TypeAliasDeclaration")
    => \E i \in 1..Len(result.statements) :
          /\ result.statements[i].kind = "TypeAliasDeclaration"
          /\ \A j \in 1..Len(result.statements) :
                result.statements[j].name = "Tsconfig" <=> j = i

\* The number of export modifiers in a modifier list.
RECURSIVE ExportCount(_)
ExportCount(modifiers) ==
    IF modifiers = <<>> THEN 0
    ELSE (IF Head(modifiers) = ExportKeyword THEN 1 ELSE 0) + ExportCount(Tail(modifiers))

C8_OnlyTsconfigExported ==
    RanRootRenaming =>
        \A i \in 1..Len(result.statements) :
            Exported(result.statements[i]) =>
                /\ result.statements[i].kind = "TypeAliasDeclaration"
                /\ result.statements[i].name = "Tsconfig"

\* C9: in the variant that forces intersections, after pass 1 the definition
\* of the root type alias holds no union type at any depth, its top node
\* included.
C9_NoUnionUnderRoot ==
    Ran("renameTsconfigTypeForceIntersectionsRemoveOtherExports") =>
        \A i \in 1..Len(result.statements) :
            result.statements[i].kind = "TypeAliasDeclaration" =>
                \A n \in NodesOf(result.statements[i].type) : n.kind # "UnionType"

---------------------------------------------------------------------------
(* C10: attachSchemaPropToTopLevel                                         *)

---------------------------------------------------------------------------
(* C11: the whole pipeline on a root alias and the interface it names      *)

\* A union or intersection under node has the string keyword as a member.
HasWideStringMember(node) ==
    \E n \in NodesOf(node) :
        IsUnionOrIntersection(n) /\ \E i \in 1..Len(n.types) : IsWideString(n.types[i])

HasUnknownIndexSignature(node) ==
    \E n \in NodesOf(node) : IsUnknownIndexSignature(n)

HasUnionOrIntersection(node) ==
    \E n \in NodesOf(node) : IsUnionOrIntersection(n)

RootAliasDone ==
    /\ pc = "done"
    /\ initialSourceFile \in RootAndInterfaceFiles

RootRenamedAndNarrowed ==
    /\ result.statements[1].kind = "TypeAliasDeclaration"
    /\ result.statements[1].name = "Tsconfig"
    /\ ~HasWideStringMember(result.statements[1].type)
    /\ StringLiteralsOf(result.statements[1]) = StringLiteralsOf(initialSourceFile.statements[1])

---------------------------------------------------------------------------
(* C12, C13: the pipeline as a whole                                       *)

\* C12: the pipeline run on its own output gives that output again, in each
\* configuration.
C12_Idempotent ==
    pc = "done" => Threaded(getTransformerFactories(variant), result) = result

\* C13: every pass gives a source file when given one, so the check after a
\* pass never throws and the pipeline returns a source file; the transformer
\* has thrown only when the pass it called gave a node that is no source file.
C13_SourceFileInSourceFileOut ==
    /\ result.kind = "SourceFile"
    /\ \A k \in 1..Len(getTransformerFactories(variant)) :
          callTransformer(variant, getTransformerFactories(variant)[k], result).kind
              = "SourceFile"
    /\ pc # "thrown"
    /\ pc = "done" => applied = getTransformerFactories(variant)

\* The pipeline is through, every pass called, and the tree has changed.
C13_Witness ==
    /\ pc = "done"
    /\ Len(applied) >= 4
    /\ result.kind = "SourceFile"
    /\ result # initialSourceFile

---------------------------------------------------------------------------
(* C14 - C20: main                                                         *)

\* What call r has done in this execution.
EffectsOf(r) == {log[i].did : i \in {j \in 1..Len(log) : log[j].run = r}}

RECURSIVE Count(_, _)
Count(entries, what) ==
    IF entries = <<>> THEN 0
    ELSE (IF Head(entries).did = what THEN 1 ELSE 0) + Count(Tail(entries), what)

ReleaseStages ==
    <<"writeChecksum", "writeTheType", "gitAdd", "gitCommit", "svStart", "svDone", "gitPush">>

\* The release stages call r has been through, in the order of the log.
RECURSIVE StagesOf(_, _)
StagesOf(r, entries) ==
    IF entries = <<>> THEN <<>>
    ELSE (IF Head(entries).run = r
             /\ \E i \in 1..Len(ReleaseStages) : ReleaseStages[i] = Head(entries).did
          THEN <<Head(entries).did>>
          ELSE <<>>)
         \o StagesOf(r, Tail(entries))

\* Call r is a production run that has its formatted output.
ProductionOutput(r) == ~runs[r].devMode /\ runs[r].formatted # ""

\* C14: a production run whose output has the stored checksum throws
\* "Already released this version." before it writes or runs anything, and
\* if it is the only call checksum.json is as it was.
C14_AlreadyReleasedBeforeAnyWrite ==
    pc = "main" =>
        \A r \in DOMAIN runs :
            (ProductionOutput(r) /\ md5(runs[r].formatted) = previousChecksum) =>
                /\ runs[r].pc = "alreadyReleased"
                /\ EffectsOf(r) \subseteq {"httpsGet"}
                /\ Len(runs) = 1 => checksumJson = previousChecksum

\* A production run has thrown on the checksum a release before it stored.
C14_Witness ==
    /\ pc = "main"
    /\ released # ""
    /\ \E r \in DOMAIN runs :
          /\ runs[r].pc = "alreadyReleased"
          /\ previousChecksum = md5(released)

\* C15: a production run whose output is what the last completed release
\* before this execution published throws "Already released this version.".
C15_NoOpDetected ==
    pc = "main" =>
        \A r \in DOMAIN runs :
            (ProductionOutput(r) /\ releasedBefore # ""
                /\ runs[r].formatted = releasedBefore)
            => runs[r].pc = "alreadyReleased"

\* C16: with the file dev there, a run writes the_type.d.ts and nothing else:
\* no checksum is made or compared, checksum.json is not written and no
\* command is run.
C16_DevelopmentWritesTheTypeOnly ==
    (pc = "main" /\ devFile) =>
        /\ checksumJson = previousChecksum
        /\ \A r \in DOMAIN runs :
              /\ EffectsOf(r) \subseteq {"httpsGet", "writeTheType"}
              /\ runs[r].checksum = ""
              /\ runs[r].pc # "alreadyReleased"

\* A development run is done, after a release, with its output on disk.
C16_Witness ==
    /\ pc = "main" /\ devFile
    /\ released # ""
    /\ \E r \in DOMAIN runs :
          /\ runs[r].pc = "done"
          /\ theTypeDts = runs[r].formatted
          /\ "writeTheType" \in EffectsOf(r)

\* C17: the stages of a production run come one after another in the order
\* write checksum.json, write the_type.d.ts, git add, git commit, version bump
\* started, version bump done, git push.
C17_StagesInOrder ==
    pc = "main" =>
        \A r \in DOMAIN runs :
            ~runs[r].devMode => IsPrefix(StagesOf(r, log), ReleaseStages)

\* C18: a production run that has ended with an error has written neither
\* file and run no release step.
C18_NoPartialSuccess ==
    pc = "main" =>
        \A r \in DOMAIN runs :
            (~runs[r].devMode /\ runs[r].pc \in {"rejected", "alreadyReleased"})
            => EffectsOf(r) \subseteq {"httpsGet"}

\* C19: a response that is no JSON gets the fetch promise rejected, and main
\* ends with an error.
C19_InvalidBodyRejects ==
    pc = "main" =>
        \A r \in DOMAIN runs :
            runs[r].body = InvalidBody => runs[r].pc = "rejected"

\* C20: in one execution the schema is fetched once, each file is written at
\* most once and the release commands are run at most once.
C20_OneRunPerExecution ==
    pc = "main" =>
        /\ Len(runs) <= 1
        /\ \A what \in {"httpsGet", "writeChecksum", "writeTheType", "gitCommit", "gitPush"} :
              Count(log, what) <= 1

---------------------------------------------------------------------------
(* C21: what removeStandaloneUnknownRecsInUnions may remove                *)

\* The shape { [key: string]: unknown }: an object type literal with one
\* member, a string-keyed index signature with value type unknown.
IsExactUnknownRec(type) ==
    IsStandaloneRec(type) /\ type.members[1].type = UnknownKeyword

\* The tree with the members of that exact shape taken out of every union,
\* all else kept in order.
RECURSIVE WithoutExactUnknownRecs(_)
RECURSIVE WithoutExactUnknownRecsAll(_, _)
WithoutExactUnknownRecsAll(inUnion, nodes) ==
    IF nodes = <<>> THEN <<>>
    ELSE (IF inUnion /\ IsExactUnknownRec(Head(nodes))
          THEN <<>>
          ELSE <<WithoutExactUnknownRecs(Head(nodes))>>)
         \o WithoutExactUnknownRecsAll(inUnion, Tail(nodes))
WithoutExactUnknownRecs(node) ==
    updateChildren(node, WithoutExactUnknownRecsAll(node.kind = "UnionType", Children(node)))

\* C21: pass 3 removes a union member only if it is exactly the shape
\* { [key: string]: unknown }; a member whose sole index signature has another
\* value type, or that has an index signature beside other fields, is kept.
C21_OnlyExactShapeRemoved ==
    Ran("removeStandaloneUnknownRecsInUnions") =>
        result = WithoutExactUnknownRecs(initialSourceFile)

---------------------------------------------------------------------------
(* C22: the passes the two scripts share                                   *)

OtherVariant(v) == IF v = "action" THEN "index" ELSE "action"

SharedPasses ==
    {"removeStringMergedWithStringLiterals",
     "removeStandaloneUnknownRecsInUnions",
     "removeUnknownIndexSignatures"}

\* C22: the scripts differ in pass 1 only: pass 2, pass 3 and pass 4 of one
\* script give, on every tree, the tree the same pass of the other script
\* gives.
C22_SharedPassesAgree ==
    \A transform \in SharedPasses :
        Ran(transform) =>
            result = callTransformer(OtherVariant(variant), transform, initialSourceFile)

---------------------------------------------------------------------------
(* C23: intersectsWithStringLiteral                                        *)

\* C23: intersectsWithStringLiteral is true of a string-literal type, of a
\* union or intersection with a member it is true of, and of a parenthesized
\* node around a node it is true of; it is false of every other node, a
\* literal type that is no string literal, an array, an object type literal
\* and the string keyword among them.
C23_IntersectsWithStringLiteral ==
    \A n \in NodesOf(initialSourceFile) \cup NodesOf(result) :
        /\ intersectsWithStringLiteral(n) = IntersectsStringLiteral(n)
        /\ n.kind \notin {"LiteralType", "UnionType", "IntersectionType", "ParenthesizedType"}
              => ~intersectsWithStringLiteral(n)
        /\ (n.kind = "LiteralType" /\ n.literal.kind # "StringLiteral")
              => ~intersectsWithStringLiteral(n)

\* Pass 2 ran on a tree that holds a parenthesized union of a numeric literal
\* and the string keyword beside a string literal, an array of literals and
\* an object type literal among its other inputs, and the function told the
\* union with the numeric literal alone from the one with the string literal.
C23_Witness ==
    /\ Ran("removeStringMergedWithStringLiterals")
    /\ \E n \in NodesOf(initialSourceFile) :
          /\ n.kind = "UnionType"
          /\ intersectsWithStringLiteral(n)
          /\ \E i \in 1..Len(n.types) :
                /\ n.types[i].kind = "ParenthesizedType"
                /\ ~intersectsWithStringLiteral(n.types[i])
                /\ \E m \in NodesOf(n.types[i]) :
                      m.kind = "LiteralType" /\ m.literal.kind = "NumericLiteral"

---------------------------------------------------------------------------
(* C24 - C26: no pass empties a node                                       *)

\* Every union and intersection under node has a member.
NoEmptyUnionOrIntersection(node) ==
    \A n \in NodesOf(node) : IsUnionOrIntersection(n) => Len(n.types) >= 1

\* C24: given a tree in which every union has a member, pass 3 returns a tree
\* in which every union has a member.
C24_NoEmptyUnionAfterRecs ==
    (Ran("removeStandaloneUnknownRecsInUnions")
        /\ NoEmptyUnionOrIntersection(initialSourceFile))
    => \A n \in NodesOf(result) : n.kind = "UnionType" => Len(n.types) >= 1

\* C25: given a tree in which every union and intersection has a member,
\* pass 2 returns a tree in which every union and intersection has a member.
C25_NoEmptyUnionAfterStrings ==
    (Ran("removeStringMergedWithStringLiterals")
        /\ NoEmptyUnionOrIntersection(initialSourceFile))
    => NoEmptyUnionOrIntersection(result)

\* Every interface body and object type literal under node has a member.
NoEmptyShape(node) ==
    \A n \in NodesOf(node) : IsShape(n) => Len(n.members) >= 1

\* C26: given a tree in which every interface body and object type literal
\* has a member, pass 4 returns a tree in which each of them has a member.
C26_NoEmptyShapeAfterSignatures ==
    (Ran("removeUnknownIndexSignatures") /\ NoEmptyShape(initialSourceFile))
    => NoEmptyShape(result)

---------------------------------------------------------------------------
(* C27, C28: what removeStringMergedWithStringLiterals removes             *)

\* node with the children given, nothing added by the factory.
WithChildren(node, children) ==
    CASE IsUnionOrIntersection(node) -> [node EXCEPT !.types = children]
      [] node.kind = "ArrayType" -> [node EXCEPT !.elementType = children[1]]
      [] OTHER -> updateChildren(node, children)

\* The tree without its parenthesized wrapper nodes.
RECURSIVE WithoutParentheses(_)
RECURSIVE WithoutParenthesesAll(_)
WithoutParenthesesAll(nodes) ==
    IF nodes = <<>> THEN <<>>
    ELSE <<WithoutParentheses(Head(nodes))>> \o WithoutParenthesesAll(Tail(nodes))
WithoutParentheses(node) ==
    IF node.kind = "ParenthesizedType" THEN WithoutParentheses(node.type)
    ELSE WithChildren(node, WithoutParenthesesAll(Children(node)))

\* What pass 2 may not touch if it removes string keywords from the unions
\* and intersections that intersect with a string literal only: the tree with
\* the string-keyword members taken out of every such union and intersection,
\* all else kept.
RECURSIVE WithoutOwnWideStrings(_)
RECURSIVE WithoutOwnWideStringsAll(_, _)
WithoutOwnWideStringsAll(strip, nodes) ==
    IF nodes = <<>> THEN <<>>
    ELSE (IF strip /\ IsWideString(Head(nodes))
          THEN <<>>
          ELSE <<WithoutOwnWideStrings(Head(nodes))>>)
         \o WithoutOwnWideStringsAll(strip, Tail(nodes))
WithoutOwnWideStrings(node) ==
    WithChildren(node,
        WithoutOwnWideStringsAll(IsUnionOrIntersection(node) /\ IntersectsStringLiteral(node),
                                 Children(node)))

\* What it may not touch if it removes them also from the unions and
\* intersections nested, through parentheses, unions and intersections only,
\* in one that intersects with a string literal (nested tells that node is).
RECURSIVE WithoutNestedWideStrings(_, _)
RECURSIVE WithoutNestedWideStringsAll(_, _, _)
WithoutNestedWideStringsAll(strip, nested, nodes) ==
    IF nodes = <<>> THEN <<>>
    ELSE (IF strip /\ IsWideString(Head(nodes))
          THEN <<>>
          ELSE <<WithoutNestedWideStrings(nested, Head(nodes))>>)
         \o WithoutNestedWideStringsAll(strip, nested, Tail(nodes))
WithoutNestedWideStrings(nested, node) ==
    IF IsUnionOrIntersection(node)
    THEN LET strip == nested \/ IntersectsStringLiteral(node)
         IN WithChildren(node, WithoutNestedWideStringsAll(strip, strip, node.types))
    ELSE IF node.kind = "ParenthesizedType"
    THEN WithChildren(node,
            <<WithoutNestedWideStrings(nested \/ IntersectsStringLiteral(node), node.type)>>)
    ELSE WithChildren(node, WithoutNestedWideStringsAll(FALSE, FALSE, Children(node)))

\* C27 as stated: pass 2 removes a string-keyword member from a union or
\* intersection only if that union or intersection itself has a member that
\* intersects with a string literal; the string members of any other union or
\* intersection are kept, also of one nested in a union with a string literal.
C27_RemovedOnlyBesideLiteral ==
    Ran("removeStringMergedWithStringLiterals") =>
        WithoutOwnWideStrings(WithoutParentheses(result))
            = WithoutOwnWideStrings(WithoutParentheses(initialSourceFile))

\* C27 amended: pass 2 removes a string-keyword member from a union or
\* intersection only if that union or intersection intersects with a string
\* literal or is nested, through parentheses, unions and intersections only,
\* in one that does; the string members of every other union or intersection
\* are kept.
C27_RemovedOnlyBesideOrUnderLiteral ==
    Ran("removeStringMergedWithStringLiterals") =>
        WithoutNestedWideStrings(FALSE, WithoutParentheses(result))
            = WithoutNestedWideStrings(FALSE, WithoutParentheses(initialSourceFile))

\* Pass 2 ran on a union with a string literal and a parenthesized union that
\* has the string keyword and no string literal, and took that string keyword
\* out.
C27_Witness ==
    /\ Ran("removeStringMergedWithStringLiterals")
    /\ \E n \in NodesOf(initialSourceFile) :
          /\ n.kind = "UnionType"
          /\ \E i \in 1..Len(n.types) : IsStringLiteralType(n.types[i])
          /\ \E i \in 1..Len(n.types) :
                /\ n.types[i].kind = "ParenthesizedType"
                /\ n.types[i].type.kind = "UnionType"
                /\ ~IntersectsStringLiteral(n.types[i].type)
                /\ \E j \in 1..Len(n.types[i].type.types) :
                      IsWideString(n.types[i].type.types[j])
    /\ ~HasWideStringMember(result)

\* What pass 2 may not touch: the tree without the string-keyword members of
\* its unions and intersections, with its parenthesized wrappers
\* (WithWrappers) or without them (WithoutWrappers).
RECURSIVE WithWrappers(_)
RECURSIVE WithWrappersAll(_, _)
WithWrappersAll(strip, nodes) ==
    IF nodes = <<>> THEN <<>>
    ELSE (IF strip /\ IsWideString(Head(nodes))
          THEN <<>>
          ELSE <<WithWrappers(Head(nodes))>>)
         \o WithWrappersAll(strip, Tail(nodes))
WithWrappers(node) ==
    WithChildren(node, WithWrappersAll(IsUnionOrIntersection(node), Children(node)))

WithoutWrappers(node) == WithWrappers(WithoutParentheses(node))

\* A union or intersection under node intersects with a string literal.
HasUnionBesideLiteral(node) ==
    \E n \in NodesOf(node) : IsUnionOrIntersection(n) /\ IntersectsStringLiteral(n)

\* A parenthesized node under node intersects with a string literal.
HasWrapperAroundLiteral(node) ==
    \E n \in NodesOf(node) : n.kind = "ParenthesizedType" /\ IntersectsStringLiteral(n)

\* C28 as stated: pass 2 changes the tree only by deleting string-keyword
\* members of unions and intersections, every other node, the parenthesized
\* wrappers among them, being kept in place, and it returns a tree in which
\* no union or intersection intersects with a string literal as it was.
C28_OnlyWideStringsDeleted ==
    Ran("removeStringMergedWithStringLiterals") =>
        /\ WithWrappers(result) = WithWrappers(initialSourceFile)
        /\ ~HasUnionBesideLiteral(initialSourceFile) => result = initialSourceFile

\* C28 amended: pass 2 changes the tree only by deleting string-keyword
\* members of unions and intersections and by dropping parenthesized wrappers,
\* every other node being kept in place; a tree in which no union or
\* intersection intersects with a string literal comes back the same but for
\* its wrappers, and as it was if no wrapper of it intersects with a string
\* literal either.
C28_OnlyWideStringsAndWrappersDeleted ==
    Ran("removeStringMergedWithStringLiterals") =>
        /\ WithoutWrappers(result) = WithoutWrappers(initialSourceFile)
        /\ ~HasUnionBesideLiteral(initialSourceFile) =>
              WithoutParentheses(result) = WithoutParentheses(initialSourceFile)
        /\ (~HasUnionBesideLiteral(initialSourceFile)
               /\ ~HasWrapperAroundLiteral(initialSourceFile))
           => result = initialSourceFile

\* Pass 2 ran on a root alias whose type is a parenthesized union of a string
\* literal, the string keyword and a member that is neither: the wrapper and
\* the string keyword are gone and the other members are there.
C28_Witness ==
    /\ Ran("removeStringMergedWithStringLiterals")
    /\ LET before == initialSourceFile.statements[1]
           after == result.statements[1]
       IN /\ before.kind = "TypeAliasDeclaration"
          /\ before.type.kind = "ParenthesizedType"
          /\ before.type.type.kind = "UnionType"
          /\ WideStringBesideLiteral(before.type.type)
          /\ after.type.kind = "UnionType"
          /\ Len(after.type.types) = Len(before.type.type.types) - 1

---------------------------------------------------------------------------
(* C29: the order of the record removal and the wide-string removal        *)

\* C29: removeStandaloneUnknownRecsInUnions and then
\* removeStringMergedWithStringLiterals give, on every source tree, the tree
\* that removeStringMergedWithStringLiterals and then
\* removeStandaloneUnknownRecsInUnions give.
C29_RecsAndStringsCommute ==
    /\ Ran("removeStandaloneUnknownRecsInUnions") =>
          removeStringMergedWithStringLiterals(result)
              = removeStandaloneUnknownRecsInUnions(
                    removeStringMergedWithStringLiterals(initialSourceFile))
    /\ Ran("removeStringMergedWithStringLiterals") =>
          removeStandaloneUnknownRecsInUnions(result)
              = removeStringMergedWithStringLiterals(
                    removeStandaloneUnknownRecsInUnions(initialSourceFile))

---------------------------------------------------------------------------
(* C30: what removeUnknownIndexSignatures leaves of an interface           *)

\* C30: in both scripts pass 4 returns every interface declaration with the
\* name, the modifiers, the type parameters and the heritage clauses it had,
\* whether or not a member of it was removed.
C30_InterfaceHeaderKept ==
    Ran("removeUnknownIndexSignatures") =>
        \A i \in 1..Len(initialSourceFile.statements) :
            LET before == initialSourceFile.statements[i]
                after == result.statements[i]
            IN before.kind = "InterfaceDeclaration" =>
                  /\ after.kind = "InterfaceDeclaration"
                  /\ after.name = before.name
                  /\ after.modifiers = before.modifiers
                  /\ after.typeParameters = before.typeParameters
                  /\ after.heritageClauses = before.heritageClauses

====
